---- MODULE Spec2Model ----
(***************************************************************************)
(* Credential issuance, anchoring and verification of the certificate     *)
(* system: the handlers of app.py (upload_certificate_page,                *)
(* verify_certificate, delete_certificate) and the ledger client of        *)
(* blockchain.py (BlockchainManager).                                      *)
(*                                                                         *)
(* Strings are sequences of one-character strings, so that strip, the      *)
(* "|"-joined data string and len() are computed as the code computes      *)
(* them.  hashlib.sha256(...).hexdigest() is modelled as an injective map  *)
(* from the data string onto 64 hex digits (collision resistance of        *)
(* SHA-256 is assumed, the digest length is kept).                         *)
(***************************************************************************)
EXTENDS Integers, Sequences, FiniteSets, TLC

VARIABLES
    blockchain,   \* app.py:41   the global handle: TRUE = a BlockchainManager, FALSE = None
    store,        \* the Student table: a set of rows
    chain,        \* the ledger: the transactions the contract account has submitted
    req,          \* the in-flight upload_certificate_page requests, one per handler thread
    issued,       \* number of upload requests started so far
    deleted,      \* number of rows deleted so far
    vres          \* what the last verify_certificate request rendered and called

vars == <<blockchain, store, chain, req, issued, deleted, vres>>

(***************************************************************************)
(* Bounds of the model.                                                    *)
(***************************************************************************)
MaxIssues == 2
MaxDeletes == 1

\* The handler threads that can serve an upload at the same time.
Procs == {"t1", "t2"}

(***************************************************************************)
(* Strings.                                                                *)
(***************************************************************************)
RECURSIVE LStrip(_)
LStrip(s) == IF s # <<>> /\ Head(s) = " " THEN LStrip(Tail(s)) ELSE s

RECURSIVE RStrip(_)
RStrip(s) ==
    IF s # <<>> /\ s[Len(s)] = " " THEN RStrip(SubSeq(s, 1, Len(s) - 1)) ELSE s

\* str.strip()
Strip(s) == RStrip(LStrip(s))

\* The two hex digits of a character's UTF-8 byte.
HexOf(c) ==
    CASE c = " " -> <<"2", "0">>
      [] c = "A" -> <<"4", "1">>
      [] c = "B" -> <<"4", "2">>
      [] c = "C" -> <<"4", "3">>
      [] c = "D" -> <<"4", "4">>
      [] c = "H" -> <<"4", "8">>
      [] c = "P" -> <<"5", "0">>
      [] c = "Y" -> <<"5", "9">>
      [] c = "|" -> <<"7", "c">>

RECURSIVE HexString(_)
HexString(s) == IF s = <<>> THEN <<>> ELSE HexOf(Head(s)) \o HexString(Tail(s))

\* Length of a SHA-256 hex digest.
DigestHexLen == 64

\* hashlib.sha256(data).hexdigest(): 64 hex digits, different for different data.
Sha256Hex(s) ==
    LET h == HexString(s)
    IN  h \o [i \in 1..(DigestHexLen - Len(h)) |-> "0"]

\* f"{full_name}|{matric_number}|{year_of_graduation}|{date_of_award}|{honors}|{course_of_study}"
DataString(f) ==
    f.full_name \o <<"|">> \o f.matric_number \o <<"|">> \o f.year_of_graduation
        \o <<"|">> \o f.date_of_award \o <<"|">> \o f.honors \o <<"|">> \o f.course_of_study

\* Mutant: the digest also depends on whether the table is empty.
CertificateHashOfState(f) ==
    Sha256Hex(DataString(f) \o (IF store = {} THEN <<>> ELSE <<"A">>))

\* app.py:385-386
CertificateHash(f) == Sha256Hex(DataString(f))

(***************************************************************************)
(* The forms an administrator can post.                                    *)
(***************************************************************************)
\* Name and matric number of the forms: two with the same matric number, two whose
\* data strings are equal although the fields differ, one with a blank name.
NamesAndMatrics ==
    {<<<<"A">>, <<"C">>>>,
     <<<<"A", "|", "B">>, <<"C">>>>,
     <<<<"A">>, <<"B", "|", "C">>>>,
     <<<<" ">>, <<"C">>>>}

Forms ==
    {[full_name |-> nm[1], matric_number |-> nm[2], year_of_graduation |-> <<"Y">>,
      date_of_award |-> <<"D", " ">>, honors |-> <<"H">>, course_of_study |-> <<"P">>] :
        nm \in NamesAndMatrics}

\* app.py:370-375
StripForm(f) ==
    [full_name |-> Strip(f.full_name), matric_number |-> Strip(f.matric_number),
     year_of_graduation |-> Strip(f.year_of_graduation),
     date_of_award |-> Strip(f.date_of_award), honors |-> Strip(f.honors),
     course_of_study |-> Strip(f.course_of_study)]

\* app.py:377  all([...]): every field is non-empty
AllPresent(f) ==
    /\ f.full_name # <<>>
    /\ f.matric_number # <<>>
    /\ f.year_of_graduation # <<>>
    /\ f.date_of_award # <<>>
    /\ f.honors # <<>>
    /\ f.course_of_study # <<>>

NoForm == StripForm([full_name |-> <<>>, matric_number |-> <<>>, year_of_graduation |-> <<>>,
                     date_of_award |-> <<>>, honors |-> <<>>, course_of_study |-> <<>>])

(***************************************************************************)
(* The Student table.                                                      *)
(***************************************************************************)
\* Mutant: no row is ever found by matric number.
MatricNeverExists(st, m) == FALSE

\* Student.query.filter_by(matric_number=m).first() is not None
MatricExists(st, m) == \E r \in st : r.matric_number = m

\* Student.query.filter_by(certificate_hash=h) (at most one row: the column is unique)
RowsByHash(st, h) == {r \in st : r.certificate_hash = h}

\* The primary key SQLite gives a new row (INTEGER PRIMARY KEY: largest rowid + 1).
NewId(st) ==
    IF st = {} THEN 1
    ELSE 1 + (CHOOSE i \in {r.id : r \in st} : \A r \in st : r.id <= i)

\* Student(...) of app.py:399-408 with the column defaults of the table.
NewStudent(st, f, h) ==
    [id |-> NewId(st),
     full_name |-> f.full_name, matric_number |-> f.matric_number,
     year_of_graduation |-> f.year_of_graduation, date_of_award |-> f.date_of_award,
     honors |-> f.honors, course_of_study |-> f.course_of_study,
     certificate_hash |-> h,
     blockchain_tx_hash |-> 0, blockchain_block_number |-> 0, on_blockchain |-> FALSE]

\* Mutant: certificate_hash is not a unique column.
InsertErrorMatricOnly(st, row, io) ==
    IF io THEN "OperationalError"
    ELSE IF MatricExists(st, row.matric_number) THEN "IntegrityError"
    ELSE "ok"

\* What db.session.add + commit does with a new row: the exception it raises, or "ok".
\* io is whether the database itself fails (disk, lock).
InsertError(st, row, io) ==
    IF io THEN "OperationalError"
    ELSE IF MatricExists(st, row.matric_number) \/ RowsByHash(st, row.certificate_hash) # {}
         THEN "IntegrityError"
         ELSE "ok"

(***************************************************************************)
(* Requests.                                                               *)
(***************************************************************************)
NoResult == [none |-> TRUE]

Idle ==
    [pc |-> "idle", form |-> NoForm, hash |-> <<>>, sid |-> 0, nonce |-> -1, tx |-> 0,
     result |-> NoResult, trace |-> <<>>, flashes |-> <<>>, redirect |-> ""]

Flash(cat, msg, arg) == [cat |-> cat, msg |-> msg, arg |-> arg]

\* Mutant: a failed insert is ignored and the upload goes on to the ledger.
DatabaseErrorIgnored(r, e) ==
    IF r.pc = "insert"
    THEN [r EXCEPT !.pc = "anchor"]
    ELSE [r EXCEPT !.pc = "done",
                   !.flashes = Append(r.flashes, Flash("danger", "DatabaseError", e)),
                   !.redirect = "upload_certificate_page"]

\* The except branch of app.py:437-440.
DatabaseError(r, e) ==
    [r EXCEPT !.pc = "done",
              !.flashes = Append(r.flashes, Flash("danger", "DatabaseError", e)),
              !.redirect = "upload_certificate_page"]

\* blockchain.py:351-383: a manager when the three settings are present and the
\* constructor does not raise, otherwise None.
EnvVars == {"INFURA_URL", "CONTRACT_ADDRESS", "PRIVATE_KEY"}

InitializeBlockchain(env, constructed) == (\A k \in EnvVars : env[k]) /\ constructed

Init ==
    /\ \E env \in [EnvVars -> BOOLEAN], constructed \in BOOLEAN :
         blockchain = InitializeBlockchain(env, constructed)
    /\ store = {}
    /\ chain = {}
    /\ req = [p \in Procs |-> Idle]
    /\ issued = 0
    /\ deleted = 0
    /\ vres = [query |-> [method |-> "", present |-> FALSE, value |-> <<>>], page |-> "",
               student |-> NoResult, blockchain_result |-> NoResult, trace |-> <<>>]

\* app.py:369-408: read and strip the form, require every field, look the matric
\* number up, hash the data string, build the row.
Submit(p) ==
    /\ req[p].pc \in {"idle", "done"}
    /\ issued < MaxIssues
    /\ issued' = issued + 1
    /\ \E raw \in Forms :
         LET f == StripForm(raw)
             h == CertificateHash(f)
         IN  req' = [req EXCEPT ![p] =
                 IF ~AllPresent(f)
                 THEN [Idle EXCEPT !.pc = "done",
                          !.flashes = <<Flash("danger", "AllFieldsRequired", <<>>)>>,
                          !.redirect = "upload_certificate_page"]
                 ELSE IF MatricExists(store, f.matric_number)
                 THEN [Idle EXCEPT !.pc = "done", !.form = f,
                          !.trace = <<"query_matric">>,
                          !.flashes = <<Flash("danger", "AlreadyExists", f.matric_number)>>,
                          !.redirect = "upload_certificate_page"]
                 ELSE [Idle EXCEPT !.pc = "insert", !.form = f, !.hash = h,
                          !.trace = <<"query_matric", "sha256", "generate_pdf">>]]
    /\ UNCHANGED <<blockchain, store, chain, deleted, vres>>

\* Mutant: the handle is not tested, the ledger is called even when it is None.
CommittedAlwaysAnchors(r, id) ==
    [r EXCEPT !.sid = id, !.pc = "anchor",
              !.flashes = Append(r.flashes, Flash("info", "SavedStoring", <<>>))]

\* app.py:415-416, 432-435: after the commit, go on to the ledger if there is one,
\* otherwise finish.
Committed(r, id) ==
    IF blockchain
    THEN [r EXCEPT !.sid = id, !.pc = "anchor",
                   !.flashes = Append(r.flashes, Flash("info", "SavedStoring", <<>>))]
    ELSE [r EXCEPT !.sid = id, !.pc = "done",
                   !.flashes = Append(r.flashes, Flash("success", "SavedNotConfigured", <<>>)),
                   !.redirect = "upload_success_page"]

\* app.py:410-416, 432-440: insert and commit the row; then either start anchoring
\* or, with no ledger configured, finish.
Insert(p) ==
    /\ req[p].pc = "insert"
    /\ \E io \in BOOLEAN :
         LET r   == req[p]
             row == NewStudent(store, r.form, r.hash)
             e   == InsertError(store, row, io)
             r1  == [r EXCEPT !.trace = Append(r.trace, "insert")]
         IN  IF e # "ok"
             THEN /\ store' = store
                  /\ req' = [req EXCEPT ![p] = DatabaseError(r1, e)]
             ELSE /\ store' = store \cup {row}
                  /\ req' = [req EXCEPT ![p] = Committed(r1, row.id)]
    /\ UNCHANGED <<blockchain, chain, issued, deleted, vres>>

(***************************************************************************)
(* The ledger client: BlockchainManager.store_certificate_on_blockchain.   *)
(***************************************************************************)
\* blockchain.py:75  the minimum balance, 0.001 ETH, in thousandths of an ETH.
MinBalance == 1

\* What get_balance() can return (thousandths of an ETH), or that the call raises.
Balances == {0, 1, 2}

\* Mutant: the exception leaves store_certificate_on_blockchain.
CaughtNothing(e) == [raised |-> [msg |-> e]]

\* The except branch of blockchain.py:131-136: str(e) becomes the error of the result.
Caught(e) == [success |-> FALSE, error |-> [msg |-> e]]

\* blockchain.py:68-71
NotConnected ==
    [success |-> FALSE, error |-> [msg |-> "Not connected to blockchain network"]]

\* blockchain.py:76-79
Insufficient(bal) ==
    [success |-> FALSE, error |-> [msg |-> "Insufficient balance", balance |-> bal]]

\* blockchain.py:118-123
Confirmed(t) ==
    [success |-> TRUE, tx_hash |-> t.tx, block_number |-> t.block, gas_used |-> t.gas_used]

\* Mutant: the failure of a reverted transaction does not name the transaction.
RevertedWithoutReference(t) ==
    [success |-> FALSE, error |-> [msg |-> "Transaction failed on blockchain"]]

\* blockchain.py:125-129
Reverted(t) ==
    [success |-> FALSE, error |-> [msg |-> "Transaction failed on blockchain"],
     tx_hash |-> t.tx]

\* w3.eth.get_transaction_count(account): the transactions of the account that are mined.
TransactionCount == Cardinality({t \in chain : t.status # "pending"})

\* Number of the latest block: one transaction of the account per block.
Height == Cardinality({t \in chain : t.status # "pending"})

\* Mutant: a failed anchor is treated as a failed upload.
ReturnedFailureIsFatal(r, res) ==
    IF res.success
    THEN [r EXCEPT !.result = res, !.pc = "update"]
    ELSE DatabaseError([r EXCEPT !.result = res], res.error.msg)

\* The handler when store_certificate_on_blockchain has returned res (app.py:417-431):
\* on success it goes on to the second commit, on failure it warns and finishes.  An
\* exception leaving the call would reach the except branch of app.py:437.
Returned(r, res) ==
    IF "raised" \in DOMAIN res
    THEN DatabaseError([r EXCEPT !.result = res], res.raised.msg)
    ELSE IF res.success
    THEN [r EXCEPT !.result = res, !.pc = "update"]
    ELSE [r EXCEPT !.result = res, !.pc = "done",
             !.flashes = Append(r.flashes, Flash("warning", "BlockchainFailed", res.error)),
             !.redirect = "upload_success_page"]

Called(r, ops) == [r EXCEPT !.trace = r.trace \o ops]

\* Mutant: the balance is read before the connection is tested.
CheckedBalanceFirst(r, conn) == Called(r, <<"get_balance", "is_connected">>)

\* The calls of blockchain.py:67-74: is_connected(), and get_balance() only when it
\* answered true.
Checked(r, conn) ==
    Called(r, IF conn THEN <<"is_connected", "get_balance">> ELSE <<"is_connected">>)

\* blockchain.py:65-79: the connection check, then the balance check.
AnchorCheck(p) ==
    /\ req[p].pc = "anchor"
    /\ \E conn \in BOOLEAN, bal \in Balances \cup {-1} :
         LET r == Checked(req[p], conn)
         IN  req' = [req EXCEPT ![p] =
                 IF ~conn THEN Returned(r, NotConnected)
                 ELSE IF bal = -1 THEN Returned(r, Caught("get_balance"))
                 ELSE IF bal < MinBalance THEN Returned(r, Insufficient(bal))
                 ELSE [r EXCEPT !.pc = "anchor_build"]]
    /\ UNCHANGED <<blockchain, store, chain, issued, deleted, vres>>

\* The calls of blockchain.py:82-105 in order; each can raise.
BuildCalls == <<"get_transaction_count", "estimate_gas", "gas_price", "sign_transaction">>

\* blockchain.py:81-105: read the nonce, estimate the gas, build and sign.
AnchorBuild(p) ==
    /\ req[p].pc = "anchor_build"
    /\ \E failAt \in 0..Len(BuildCalls) :
         LET r == req[p]
         IN  req' = [req EXCEPT ![p] =
                 IF failAt = 0
                 THEN [Called(r, BuildCalls) EXCEPT !.nonce = TransactionCount,
                                                    !.pc = "anchor_send"]
                 ELSE Returned(Called(r, SubSeq(BuildCalls, 1, failAt)),
                               Caught(BuildCalls[failAt]))]
    /\ UNCHANGED <<blockchain, store, chain, issued, deleted, vres>>

\* blockchain.py:108: send_raw_transaction.  The node refuses a nonce that a
\* transaction of the account already uses; the call can also fail on the network.
AnchorSend(p) ==
    /\ req[p].pc = "anchor_send"
    /\ \E net \in BOOLEAN :
         LET r == Called(req[p], <<"send_raw_transaction">>)
             t == [tx |-> Cardinality(chain) + 1, hash |-> r.hash,
                   matric |-> r.form.matric_number, nonce |-> r.nonce,
                   status |-> "pending", block |-> 0, gas_used |-> 0]
         IN  IF ~net
             THEN /\ req' = [req EXCEPT ![p] = Returned(r, Caught("send_raw_transaction"))]
                  /\ chain' = chain
             ELSE IF \E u \in chain : u.nonce = r.nonce
             THEN /\ req' = [req EXCEPT ![p] = Returned(r, Caught("nonce too low"))]
                  /\ chain' = chain
             ELSE /\ req' = [req EXCEPT ![p] = [r EXCEPT !.tx = t.tx, !.pc = "anchor_wait"]]
                  /\ chain' = chain \cup {t}
    /\ UNCHANGED <<blockchain, store, issued, deleted, vres>>

\* The ledger mines a pending transaction: the contract call succeeds or reverts.
Mine ==
    /\ \E t \in chain, ok \in BOOLEAN :
         /\ t.status = "pending"
         /\ chain' = (chain \ {t}) \cup
                {[t EXCEPT !.status = IF ok THEN "ok" ELSE "reverted",
                           !.block = Height + 1, !.gas_used = 1]}
    /\ UNCHANGED <<blockchain, store, req, issued, deleted, vres>>

\* blockchain.py:114-136: wait_for_transaction_receipt returns the receipt of the
\* mined transaction, or raises (the timeout of 120 s, the network).
AnchorWait(p) ==
    /\ req[p].pc = "anchor_wait"
    /\ \E raise \in BOOLEAN :
         LET r == Called(req[p], <<"wait_for_transaction_receipt">>)
             t == CHOOSE u \in chain : u.tx = r.tx
         IN  IF raise
             THEN req' = [req EXCEPT ![p] = Returned(r, Caught("TimeExhausted"))]
             ELSE /\ t.status # "pending"
                  /\ req' = [req EXCEPT ![p] =
                        Returned(r, IF t.status = "ok" THEN Confirmed(t) ELSE Reverted(t))]
    /\ UNCHANGED <<blockchain, store, chain, issued, deleted, vres>>

\* What the second commit (app.py:424-427) raises, or "ok": the UPDATE goes to the row
\* with the primary key of new_student.
UpdateError(st, sid, io) ==
    IF io THEN "OperationalError"
    ELSE IF ~\E row \in st : row.id = sid THEN "StaleDataError"
    ELSE "ok"

\* The row after app.py:424-426.
Anchored(row, res) ==
    [row EXCEPT !.blockchain_tx_hash = res.tx_hash,
                !.blockchain_block_number = res.block_number,
                !.on_blockchain = TRUE]

\* app.py:422-429, 435-440: write the anchor into the row and commit.
Update(p) ==
    /\ req[p].pc = "update"
    /\ \E io \in BOOLEAN :
         LET r == Called(req[p], <<"update">>)
             e == UpdateError(store, r.sid, io)
         IN  IF e # "ok"
             THEN /\ store' = store
                  /\ req' = [req EXCEPT ![p] = DatabaseError(r, e)]
             ELSE /\ store' = {IF row.id = r.sid THEN Anchored(row, r.result) ELSE row :
                                  row \in store}
                  /\ req' = [req EXCEPT ![p] =
                        [r EXCEPT !.pc = "done",
                            !.flashes = Append(r.flashes,
                                Flash("success", "StoredOnBlockchain", r.result.tx_hash)),
                            !.redirect = "upload_success_page"]]
    /\ UNCHANGED <<blockchain, chain, issued, deleted, vres>>

\* app.py:344-357: delete_certificate(student_id) for a row that exists
\* (get_or_404 answers 404 for any other id and changes nothing).
Delete ==
    /\ deleted < MaxDeletes
    /\ \E row \in store, io \in BOOLEAN :
         IF io
         THEN \* the commit fails and is rolled back
              UNCHANGED <<store, deleted>>
         ELSE /\ store' = store \ {row}
              /\ deleted' = deleted + 1
    /\ UNCHANGED <<blockchain, chain, req, issued, vres>>

(***************************************************************************)
(* Verification: verify_certificate and verify_certificate_on_blockchain.  *)
(***************************************************************************)
\* app.py:269  the length a candidate must have.
HashLen == 64

FormAC == StripForm([full_name |-> <<"A">>, matric_number |-> <<"C">>,
                     year_of_graduation |-> <<"Y">>, date_of_award |-> <<"D">>,
                     honors |-> <<"H">>, course_of_study |-> <<"P">>])

\* The values a caller can put in the hash parameter or the certificate_hash field.
Candidates ==
    LET h == CertificateHash(FormAC)
    IN  {h,                                         \* a fingerprint
         <<" ">> \o h \o <<" ">>,                   \* the same, padded with blanks
         SubSeq(h, 1, Len(h) - 1),                  \* one digit short
         <<"z">> \o SubSeq(h, 2, Len(h)),           \* the right length, not hex
         <<>>}

\* A request to /verify: the method, and the candidate if the request carries one.
Queries ==
    {[method |-> "GET", present |-> TRUE, value |-> c] : c \in Candidates}
        \cup {[method |-> m, present |-> FALSE, value |-> <<>>] : m \in {"GET", "POST"}}

\* The anchors the contract holds: the transactions mined with success.
Anchors(h) == {t \in chain : t.status = "ok" /\ t.hash = h}

\* blockchain.py:156-166
Exists(t) ==
    [exists |-> TRUE, matric_number |-> t.matric, timestamp |-> t.block,
     date_stored |-> <<"date", t.block>>]

\* blockchain.py:167-170
NotExists == [exists |-> FALSE]

\* Mutant: a failed call is answered like a fingerprint the contract does not hold.
VerifyFailedAsNotFound(e) == [exists |-> FALSE]

\* blockchain.py:172-177: the except branch, str(e) becomes the error of the result.
VerifyFailed(e) == [exists |-> FALSE, error |-> [msg |-> e]]

\* What verify_certificate_on_blockchain(h) can return in the current state of the
\* ledger: the result of the except branch when the contract call raises, otherwise
\* what the contract answers.
LedgerVerifications(h, raises) ==
    IF raises THEN {VerifyFailed("call")}
    ELSE IF Anchors(h) = {} THEN {NotExists}
    ELSE {Exists(t) : t \in Anchors(h)}

\* Mutant: the table finding is dropped.
FirstByHashDropped(st, h) == NoResult

\* Student.query.filter_by(certificate_hash=h).first()
FirstByHash(st, h) ==
    IF RowsByHash(st, h) = {} THEN NoResult ELSE CHOOSE r \in RowsByHash(st, h) : TRUE

Rendered(q, page, student, bres, trace) ==
    [query |-> q, page |-> page, student |-> student, blockchain_result |-> bres,
     trace |-> trace]

\* Mutant: shorter candidates pass too.
WellFormedOrShorter(hash_value) == Len(hash_value) <= HashLen

\* app.py:269
WellFormed(hash_value) == Len(hash_value) = HashLen

\* app.py:281-286: what a candidate of another length gets.
Malformed(q) == Rendered(q, "verification_results.html", NoResult, NoResult, <<>>)

\* app.py:259-288
Verify ==
    /\ \E q \in Queries :
         LET hash_value == Strip(q.value)
         IN  IF ~q.present
             THEN \* GET without the parameter shows the form; POST without the field
                  \* fails on None.strip()
                  vres' = Rendered(q, IF q.method = "GET" THEN "verify_certificate.html"
                                      ELSE "500", NoResult, NoResult, <<>>)
             ELSE IF hash_value = <<>>
             THEN vres' = Rendered(q, "verify_certificate.html", NoResult, NoResult, <<>>)
             ELSE IF WellFormed(hash_value)
             THEN IF blockchain
                  THEN \E raises \in BOOLEAN :
                       \E b \in LedgerVerifications(hash_value, raises) :
                         vres' = Rendered(q, "verification_results.html",
                                          FirstByHash(store, hash_value), b,
                                          <<"query_hash", "verify_certificate_on_blockchain">>
                                              \o (IF raises THEN <<"except">> ELSE <<>>))
                  ELSE vres' = Rendered(q, "verification_results.html",
                                        FirstByHash(store, hash_value), NoResult,
                                        <<"query_hash">>)
             ELSE vres' = Malformed(q)
    /\ UNCHANGED <<blockchain, store, chain, req, issued, deleted>>

Issue(p) ==
    \/ Submit(p)
    \/ Insert(p)
    \/ AnchorCheck(p)
    \/ AnchorBuild(p)
    \/ AnchorSend(p)
    \/ AnchorWait(p)
    \/ Update(p)

Next ==
    \/ \E p \in Procs : Issue(p)
    \/ Mine
    \/ Delete

\* Concurrent uploads, the ledger and deletions.
Spec == Init /\ [][Next]_vars

NextVerify ==
    \/ Issue("t1")
    \/ Mine
    \/ Delete
    \/ Verify

\* Verification requests between the steps of the uploads of one thread.
SpecVerify == Init /\ [][NextVerify]_vars

NextSerial ==
    \/ Issue("t1")
    \/ Mine
    \/ Delete

\* Uploads one after the other.
SpecSerial == Init /\ [][NextSerial]_vars

(***************************************************************************)
(* Vocabulary of the properties.                                           *)
(***************************************************************************)
Last(r) == r.flashes[Len(r.flashes)]

\* What the caller of an upload sees at the end: the last message and the redirect.
Kind(r) == [cat |-> Last(r).cat, msg |-> Last(r).msg, redirect |-> r.redirect]

Outcome(cat, msg, redirect) == [cat |-> cat, msg |-> msg, redirect |-> redirect]

DuplicateCredential == Outcome("danger", "AlreadyExists", "upload_certificate_page")
StorageFailure == Outcome("danger", "DatabaseError", "upload_certificate_page")
AnchoredOutcome == Outcome("success", "StoredOnBlockchain", "upload_success_page")
AnchorFailed == Outcome("warning", "BlockchainFailed", "upload_success_page")
AnchorSkipped == Outcome("success", "SavedNotConfigured", "upload_success_page")

Done(p) == req[p].pc = "done"

LedgerOps ==
    {"is_connected", "get_balance", "get_transaction_count", "estimate_gas", "gas_price",
     "sign_transaction", "send_raw_transaction", "wait_for_transaction_receipt"}

\* The calls a request has made to the ledger, in order.
LedgerCalls(r) == SelectSeq(r.trace, LAMBDA op : op \in LedgerOps)

\* The commit that failed, when the request ended in the except branch.
FailedWith(r, e) == Last(r).msg = "DatabaseError" /\ Last(r).arg = e

\* The step in which the insert of p fails.
InsertFails(p) == req[p].pc = "insert" /\ req'[p].pc = "done" /\ req'[p].sid = 0

(***************************************************************************)
(* C1.  An upload whose fingerprint a row of the table already holds ends  *)
(* as DuplicateCredential and leaves the table as it was.  Stated for the  *)
(* step that ends the upload before it has created a row, the database     *)
(* itself not failing.                                                     *)
(***************************************************************************)
C1_DuplicateRejected ==
    [][\A p \in Procs :
        (/\ req'[p] # req[p]
         /\ req[p].pc \in {"idle", "done", "insert"}
         /\ req'[p].pc = "done"
         /\ AllPresent(req'[p].form)
         /\ RowsByHash(store, CertificateHash(req'[p].form)) # {}
         /\ ~FailedWith(req'[p], "OperationalError"))
        => (Kind(req'[p]) = DuplicateCredential /\ store' = store)]_vars

(***************************************************************************)
(* C2.  When the anchor succeeded and the second commit fails, the upload  *)
(* ends with an outcome of its own, not the one of a failed insert; the    *)
(* row is there without anchor data and the ledger holds the anchor.       *)
(***************************************************************************)
C2_PartialAnchorPersistence ==
    \A p \in Procs :
        (/\ Done(p)
         /\ "success" \in DOMAIN req[p].result
         /\ req[p].result.success
         /\ FailedWith(req[p], "OperationalError"))
        => /\ Kind(req[p]) # StorageFailure
           /\ \A row \in store : row.id = req[p].sid => ~row.on_blockchain
           /\ Anchors(req[p].hash) # {}

(***************************************************************************)
(* C3.  Of two uploads of the same credential that both passed the matric  *)
(* check, the one whose insert the unique columns refuse ends as           *)
(* DuplicateCredential.                                                    *)
(***************************************************************************)
C3_LoserIsDuplicate ==
    [][\A p \in Procs :
        (/\ InsertFails(p)
         /\ \E q \in Procs \ {p} : req[q].form = req[p].form /\ req[q].sid # 0
         /\ RowsByHash(store, req[p].hash) # {}
         /\ FailedWith(req'[p], "IntegrityError"))
        => Kind(req'[p]) = DuplicateCredential]_vars

(***************************************************************************)
(* C4.  Two uploads with the same fingerprint: exactly one creates a row,  *)
(* the table then holds exactly one row with the fingerprint, at most one  *)
(* of them calls the ledger.                                               *)
(***************************************************************************)
SameFingerprint(p, q) == p # q /\ req[p].hash # <<>> /\ req[p].hash = req[q].hash

C4_ExactlyOneCreates ==
    \A p, q \in Procs :
        (SameFingerprint(p, q) /\ Done(p) /\ Done(q))
        => /\ (req[p].sid # 0) # (req[q].sid # 0)
           /\ Cardinality(RowsByHash(store, req[p].hash)) = 1
           /\ ~(LedgerCalls(req[p]) # <<>> /\ LedgerCalls(req[q]) # <<>>)

\* C4 as amended: the table never holds two rows with one fingerprint; as long as no
\* row has been deleted, at most one of two uploads with the same fingerprint creates
\* a row and at most one calls the ledger, and the one that created none made no call.
C4_AtMostOneCreates ==
    /\ \A r1, r2 \in store : r1.certificate_hash = r2.certificate_hash => r1 = r2
    /\ \A p, q \in Procs :
        (SameFingerprint(p, q) /\ deleted = 0)
        => /\ ~(req[p].sid # 0 /\ req[q].sid # 0)
           /\ ~(LedgerCalls(req[p]) # <<>> /\ LedgerCalls(req[q]) # <<>>)
           /\ (req[p].sid = 0 => LedgerCalls(req[p]) = <<>>)

C4_Witness ==
    \E p, q \in Procs :
        /\ SameFingerprint(p, q) /\ Done(p) /\ Done(q) /\ deleted = 0
        /\ req[p].sid # 0 /\ req[q].sid = 0
        /\ FailedWith(req[q], "IntegrityError")
        /\ Cardinality(RowsByHash(store, req[p].hash)) = 1

(***************************************************************************)
(* C5.  The ledger is called only after the insert has committed; when the *)
(* insert fails the upload ends as StorageFailure, no row with the         *)
(* fingerprint is in the table and the ledger was not called.              *)
(***************************************************************************)
InsertBeforeLedger(r) ==
    LedgerCalls(r) # <<>> =>
        /\ r.sid # 0
        /\ \E i, j \in 1..Len(r.trace) :
              /\ i < j
              /\ r.trace[i] = "insert"
              /\ r.trace[j] \in LedgerOps
              /\ \A k \in 1..j - 1 : r.trace[k] \notin LedgerOps

C5_NoRowAfterFailedInsert ==
    /\ [](\A p \in Procs : InsertBeforeLedger(req[p]))
    /\ [][\A p \in Procs :
            InsertFails(p)
            => /\ Kind(req'[p]) = StorageFailure
               /\ RowsByHash(store', req[p].hash) = {}
               /\ LedgerCalls(req'[p]) = <<>>
               /\ chain' = chain]_vars

\* C5 as amended: ... the failed insert leaves the table as it was (a row with the
\* fingerprint can be there, created by another upload) ...
C5_PersistBeforeAnchor ==
    /\ [](\A p \in Procs : InsertBeforeLedger(req[p]))
    /\ [][\A p \in Procs :
            InsertFails(p)
            => /\ Kind(req'[p]) = StorageFailure
               /\ store' = store
               /\ LedgerCalls(req'[p]) = <<>>
               /\ chain' = chain]_vars

C5_Witness ==
    \E p, q \in Procs :
        /\ Done(p) /\ req[p].sid = 0 /\ Kind(req[p]) = StorageFailure
        /\ req[p].trace[Len(req[p].trace)] = "insert"
        /\ RowsByHash(store, req[p].hash) # {}
        /\ LedgerCalls(req[q]) # <<>> /\ req[q].sid # 0

(***************************************************************************)
(* C6.  When store_certificate_on_blockchain returns a failure, the upload *)
(* ends as AnchorFailed: the reason is flashed as a warning, the caller is *)
(* sent to the success page, the table is left as it was and the upload    *)
(* never writes anchor data; as long as no row has been deleted, its row   *)
(* is in the table with on_blockchain false and no transaction or block.   *)
(***************************************************************************)
AnchorPcs == {"anchor", "anchor_build", "anchor_send", "anchor_wait"}

\* The step in which the ledger call of p returns a failure.
AnchorReturnsFailure(p) == req[p].pc \in AnchorPcs /\ req'[p].pc = "done"

Unanchored(row) ==
    ~row.on_blockchain /\ row.blockchain_tx_hash = 0 /\ row.blockchain_block_number = 0

OwnRows(r) == {row \in store : row.id = r.sid /\ row.certificate_hash = r.hash}

C6_AnchorFailedKeepsRow ==
    /\ [][\A p \in Procs :
            AnchorReturnsFailure(p)
            => /\ Kind(req'[p]) = AnchorFailed
               /\ ~req'[p].result.success
               /\ Last(req'[p]).arg = req'[p].result.error
               /\ store' = store]_vars
    /\ [](\A p \in Procs :
            (Done(p) /\ Kind(req[p]) = AnchorFailed)
            => /\ \A i \in 1..Len(req[p].trace) : req[p].trace[i] # "update"
               /\ deleted = 0 =>
                    (OwnRows(req[p]) # {} /\ \A row \in OwnRows(req[p]) : Unanchored(row)))

\* An anchor that failed after the submission (the transaction reverted).
C6_Witness ==
    \E p \in Procs :
        /\ Done(p) /\ Kind(req[p]) = AnchorFailed /\ deleted = 0
        /\ "tx_hash" \in DOMAIN req[p].result
        /\ \E row \in OwnRows(req[p]) : Unanchored(row)

(***************************************************************************)
(* C7.  With no ledger configured, an upload that has passed the matric    *)
(* check and the insert has ended as AnchorSkipped, on the success page,   *)
(* without any ledger call, and its row has on_blockchain false.           *)
(***************************************************************************)
C7_AnchorSkipped ==
    \A p \in Procs :
        (~blockchain /\ req[p].sid # 0)
        => /\ Done(p)
           /\ Kind(req[p]) = AnchorSkipped
           /\ LedgerCalls(req[p]) = <<>>
           /\ chain = {}
           /\ \A row \in store : row.id = req[p].sid => Unanchored(row)

C7_Witness ==
    \E p \in Procs :
        /\ ~blockchain /\ req[p].sid # 0 /\ Kind(req[p]) = AnchorSkipped
        /\ \E row \in OwnRows(req[p]) : Unanchored(row)

(***************************************************************************)
(* C8.  store_certificate_on_blockchain never raises: whatever step fails, *)
(* the handler gets a result with success false and the cause of that      *)
(* step, and success true only with the receipt of the mined transaction;  *)
(* the except branch of the handler is entered from the two commits only.  *)
(***************************************************************************)
\* The errors a result can carry when the given call was the last one made.
CausesAt(op) ==
    CASE op = "is_connected" -> {NotConnected.error}
      [] op = "get_balance" ->
            {Caught("get_balance").error} \cup
                {Insufficient(b).error : b \in {x \in Balances : x < MinBalance}}
      [] op = "send_raw_transaction" ->
            {Caught("send_raw_transaction").error, Caught("nonce too low").error}
      [] op = "wait_for_transaction_receipt" ->
            {Caught("TimeExhausted").error, [msg |-> "Transaction failed on blockchain"]}
      [] OTHER -> {Caught(op).error}

AllLedgerCalls ==
    <<"is_connected", "get_balance">> \o BuildCalls
        \o <<"send_raw_transaction", "wait_for_transaction_receipt">>

C8_AnchorNeverRaises ==
    \A p \in Procs :
        LET r     == req[p]
            res   == r.result
            calls == LedgerCalls(r)
        IN  /\ "raised" \notin DOMAIN res
            /\ (Done(p) /\ Kind(r) = StorageFailure)
                   => r.trace[Len(r.trace)] \in {"insert", "update"}
            /\ (Done(p) /\ calls # <<>>) => res # NoResult
            /\ res # NoResult =>
                 /\ "success" \in DOMAIN res
                 /\ res.success \in BOOLEAN
                 /\ IF res.success
                    THEN /\ calls = AllLedgerCalls
                         /\ \E t \in chain : /\ t.tx = res.tx_hash
                                             /\ t.status = "ok"
                                             /\ t.block = res.block_number
                    ELSE /\ "error" \in DOMAIN res
                         /\ calls # <<>>
                         /\ calls = SubSeq(AllLedgerCalls, 1, Len(calls))
                         /\ res.error \in CausesAt(calls[Len(calls)])

\* Both kinds of result have been returned: a failure from a step that raised, and a
\* success.
C8_Witness ==
    \E p, q \in Procs :
        /\ Done(p) /\ req[p].result = Caught("TimeExhausted")
        /\ req[q].result # NoResult /\ req[q].result.success

(***************************************************************************)
(* C9.  A candidate whose length is not 64 gets the result of a malformed  *)
(* query, and neither the table nor the ledger is asked.                   *)
(***************************************************************************)
\* What the caller of /verify receives.
Visible(v) == [page |-> v.page, student |-> v.student,
               blockchain_result |-> v.blockchain_result]

MalformedResult ==
    [page |-> "verification_results.html", student |-> NoResult,
     blockchain_result |-> NoResult]

C9_MalformedTouchesNothing ==
    (vres.query.present /\ Len(vres.query.value) # HashLen)
    => (Visible(vres) = MalformedResult /\ vres.trace = <<>>)

\* C9 as amended: the length is that of the candidate with the blanks around it
\* removed; an empty candidate gets the query form instead of a result; in both
\* cases neither the table nor the ledger is asked.
C9_TrimmedMalformed ==
    vres.query.present =>
        LET n == Len(Strip(vres.query.value))
        IN  /\ n # HashLen => vres.trace = <<>>
            /\ n \notin {0, HashLen} => Visible(vres) = MalformedResult
            /\ n = 0 => vres.page = "verify_certificate.html"

C9_Witness ==
    /\ vres.query.present
    /\ Len(Strip(vres.query.value)) = HashLen - 1
    /\ Visible(vres) = MalformedResult
    /\ store # {}
    /\ blockchain

(***************************************************************************)
(* C10.  What a malformed candidate gets differs, in what the caller       *)
(* receives, from what a well-formed candidate gets that is in neither the *)
(* table nor the ledger, also when no ledger is configured.                *)
(***************************************************************************)
NotOnLedger(b) == b = NoResult \/ ("error" \notin DOMAIN b /\ ~b.exists)

C10_MalformedIsDistinct ==
    (/\ vres.query.present
     /\ Len(Strip(vres.query.value)) = HashLen
     /\ vres.student = NoResult
     /\ NotOnLedger(vres.blockchain_result))
    => Visible(vres) # Visible(Malformed(vres.query))

(***************************************************************************)
(* C11.  A verification whose ledger query failed gives the caller a value *)
(* different from every value given when the query succeeded and the       *)
(* contract does not hold the fingerprint: the ledger result carries the   *)
(* error exactly when the call failed, in verify_certificate_on_blockchain *)
(* and in what verify_certificate renders.                                 *)
(***************************************************************************)
\* The last verification asked the ledger.
AskedLedger(v) ==
    \E i \in 1..Len(v.trace) : v.trace[i] = "verify_certificate_on_blockchain"

\* The contract call of the last verification raised.
LedgerUnreachable(v) == AskedLedger(v) /\ v.trace[Len(v.trace)] = "except"

\* What verify_certificate renders for the same table finding when the contract
\* answers that it does not hold the fingerprint.
NotFoundOnLedger(v) ==
    [page |-> v.page, student |-> v.student, blockchain_result |-> [exists |-> FALSE]]

C11_UnreachableIsDistinct ==
    /\ [](AskedLedger(vres) =>
            /\ LedgerUnreachable(vres) <=> "error" \in DOMAIN vres.blockchain_result
            /\ LedgerUnreachable(vres) =>
                  /\ vres.blockchain_result # [exists |-> FALSE]
                  /\ Visible(vres) # NotFoundOnLedger(vres)
            /\ (~LedgerUnreachable(vres) /\ ~vres.blockchain_result.exists) =>
                  Visible(vres) = NotFoundOnLedger(vres))
    /\ [][(vres' # vres /\ AskedLedger(vres') /\ ~LedgerUnreachable(vres'))
            => (vres'.blockchain_result.exists
                    <=> Anchors(Strip(vres'.query.value)) # {})]_vars

\* The ledger holds the anchor of the fingerprint and could not be reached.
C11_Witness ==
    /\ LedgerUnreachable(vres)
    /\ "error" \in DOMAIN vres.blockchain_result
    /\ Anchors(Strip(vres.query.value)) # {}

(***************************************************************************)
(* C12.  For a candidate of 64 characters verify_certificate renders the   *)
(* results page with the finding of the table and the finding of the       *)
(* ledger as each source gave it: the row with the fingerprint or none,    *)
(* and what the contract holds or that it holds nothing, in every          *)
(* combination; with no ledger configured the ledger finding is absent.    *)
(* The table and the ledger are left as they were.                         *)
(***************************************************************************)
\* The ledger finding b is what the contract holds for h.
ContractFinding(b, h) ==
    IF Anchors(h) = {}
    THEN b = [exists |-> FALSE]
    ELSE /\ b.exists
         /\ \E t \in Anchors(h) : b.matric_number = t.matric /\ b.timestamp = t.block

C12_SideBySide ==
    [][(vres' # vres /\ vres'.query.present /\ Len(Strip(vres'.query.value)) = HashLen)
        => LET h == Strip(vres'.query.value)
           IN  /\ vres'.page = "verification_results.html"
               /\ IF RowsByHash(store, h) = {}
                  THEN vres'.student = NoResult
                  ELSE vres'.student \in RowsByHash(store, h)
               /\ IF ~blockchain
                  THEN vres'.blockchain_result = NoResult
                  ELSE LedgerUnreachable(vres')
                         \/ ContractFinding(vres'.blockchain_result, h)
               /\ store' = store
               /\ chain' = chain]_vars

\* The two sources disagree: the row is in the table, the contract does not hold the
\* fingerprint.
C12_Witness ==
    /\ vres.query.present
    /\ vres.student # NoResult
    /\ vres.student.certificate_hash = Strip(vres.query.value)
    /\ vres.blockchain_result = [exists |-> FALSE]

(***************************************************************************)
(* C13.  The fingerprint of an upload is the digest of its six fields in   *)
(* the order name, matric number, year of graduation, date of award,       *)
(* honors, course of study, and of nothing else: every request and every   *)
(* row carries the fingerprint of its own fields, so two uploads of the    *)
(* same fields have the same fingerprint whatever the table and the ledger *)
(* hold.                                                                   *)
(***************************************************************************)
OrderedFields(f) ==
    <<f.full_name, f.matric_number, f.year_of_graduation, f.date_of_award, f.honors,
      f.course_of_study>>

RECURSIVE Joined(_)
Joined(fs) == IF Len(fs) = 1 THEN fs[1] ELSE fs[1] \o <<"|">> \o Joined(Tail(fs))

Fingerprint(f) == Sha256Hex(Joined(OrderedFields(f)))

Hashed(p) == req[p].hash # <<>>

C13_FingerprintIsPure ==
    /\ \A p \in Procs : Hashed(p) => req[p].hash = Fingerprint(req[p].form)
    /\ \A row \in store : row.certificate_hash = Fingerprint(row)
    /\ \A p, q \in Procs :
          (Hashed(p) /\ Hashed(q) /\ req[p].form = req[q].form) => req[p].hash = req[q].hash
    /\ \A p \in Procs : \A row \in store :
          (Hashed(p) /\ OrderedFields(row) = OrderedFields(req[p].form))
              => req[p].hash = row.certificate_hash

\* The same fields were hashed twice, the second time after the first row had been
\* anchored and deleted.
C13_Witness ==
    \E p, q \in Procs :
        /\ p # q /\ Hashed(p) /\ Hashed(q)
        /\ req[p].form = req[q].form /\ req[p].hash = req[q].hash
        /\ Done(p) /\ req[p].sid # 0 /\ req[q].pc = "insert"
        /\ Anchors(req[p].hash) # {} /\ deleted = 1 /\ store = {}

(***************************************************************************)
(* C14.  Two uploads whose fields differ have different data strings and   *)
(* different fingerprints, also when a field contains "|".                 *)
(***************************************************************************)
C14_DistinctFieldsDistinctFingerprints ==
    \A p, q \in Procs :
        (Hashed(p) /\ Hashed(q) /\ OrderedFields(req[p].form) # OrderedFields(req[q].form))
        => /\ DataString(req[p].form) # DataString(req[q].form)
           /\ req[p].hash # req[q].hash

(***************************************************************************)
(* C15.  A candidate of 64 characters that is not a hex-encoded digest     *)
(* gets the result of a malformed query, and neither the table nor the     *)
(* ledger is asked.                                                        *)
(***************************************************************************)
HexDigits ==
    {"0", "1", "2", "3", "4", "5", "6", "7", "8", "9", "a", "b", "c", "d", "e", "f"}

IsHex(s) == \A i \in 1..Len(s) : s[i] \in HexDigits

C15_NonHexIsMalformed ==
    (/\ vres.query.present
     /\ Len(Strip(vres.query.value)) = HashLen
     /\ ~IsHex(Strip(vres.query.value)))
    => (Visible(vres) = MalformedResult /\ vres.trace = <<>>)

(***************************************************************************)
(* C16.  In every upload the steps come in the order hash, duplicate       *)
(* check, insert, ledger call, second commit: the digest is computed       *)
(* before the table is asked for a duplicate, and the row is committed     *)
(* before the first call to the ledger.                                    *)
(***************************************************************************)
\* Every occurrence of an operation of later is preceded by one of earlier.
Precedes(t, earlier, later) ==
    \A i \in 1..Len(t) :
        t[i] \in later => \E j \in 1..(i - 1) : t[j] \in earlier

C16_StepsInOrder ==
    \A p \in Procs :
        LET t == req[p].trace
        IN  /\ Precedes(t, {"sha256"}, {"query_matric"})
            /\ Precedes(t, {"query_matric"}, {"insert"})
            /\ Precedes(t, {"insert"}, LedgerOps)
            /\ Precedes(t, LedgerOps, {"update"})

(***************************************************************************)
(* C17.  store_certificate_on_blockchain tests the connection first and    *)
(* the balance second.  When it is not connected it returns that failure   *)
(* without reading the balance; when the balance is under the minimum it   *)
(* returns that failure without reading the nonce, estimating, signing or  *)
(* sending.  In both cases no transaction reaches the ledger.              *)
(***************************************************************************)
C17_FailFast ==
    /\ [](\A p \in Procs :
            LET r     == req[p]
                calls == LedgerCalls(r)
            IN  /\ calls # <<>> => calls[1] = "is_connected"
                /\ Len(calls) >= 2 => calls[2] = "get_balance"
                /\ r.result = NotConnected =>
                      (calls = <<"is_connected">> /\ r.tx = 0)
                /\ (r.result # NoResult /\ ~r.result.success
                        /\ r.result.error.msg = "Insufficient balance") =>
                      /\ calls = <<"is_connected", "get_balance">>
                      /\ r.result.error.balance < MinBalance
                      /\ r.tx = 0)
    /\ [][\A p \in Procs :
            (req[p].pc = "anchor" /\ req'[p].pc = "done") => chain' = chain]_vars

\* One upload was refused for the connection, another for the balance.
C17_Witness ==
    \E p, q \in Procs :
        /\ Done(p) /\ req[p].result = NotConnected
        /\ Done(q) /\ req[q].result \in {Insufficient(b) : b \in Balances}

(***************************************************************************)
(* C18.  When the receipt of the submitted transaction has status 0 the    *)
(* result is a failure that carries the hash of that transaction; when it  *)
(* has status 1 the result is a success that carries the transaction hash, *)
(* the block number and the gas used of the receipt.                       *)
(***************************************************************************)
\* The transaction the request has submitted.
Submitted(r) == {t \in chain : t.tx = r.tx}

\* The wait of the request returned a receipt.
GotReceipt(r) ==
    /\ r.result # NoResult
    /\ LedgerCalls(r) = AllLedgerCalls
    /\ r.result # Caught("TimeExhausted")

C18_ReceiptOutcome ==
    \A p \in Procs :
        LET r   == req[p]
            res == r.result
        IN  GotReceipt(r) =>
              /\ r.tx # 0
              /\ Submitted(r) # {}
              /\ \A t \in Submitted(r) :
                    /\ t.hash = r.hash
                    /\ t.status \in {"ok", "reverted"}
                    /\ t.status = "reverted" =>
                          /\ ~res.success
                          /\ res.error = [msg |-> "Transaction failed on blockchain"]
                          /\ "tx_hash" \in DOMAIN res
                          /\ res.tx_hash = t.tx
                    /\ t.status = "ok" =>
                          /\ res.success
                          /\ {"tx_hash", "block_number", "gas_used"} \subseteq DOMAIN res
                          /\ res.tx_hash = t.tx
                          /\ res.block_number = t.block
                          /\ res.gas_used = t.gas_used

\* One transaction was mined with status 0, another with status 1, and both
\* receipts were returned.
C18_Witness ==
    \E p, q \in Procs :
        /\ GotReceipt(req[p]) /\ ~req[p].result.success
        /\ \E t \in Submitted(req[p]) : t.status = "reverted"
        /\ GotReceipt(req[q]) /\ req[q].result.success

(***************************************************************************)
(* C19.  An upload that has passed the matric check and committed its row  *)
(* ends in one of the outcomes Anchored, AnchorFailed, AnchorSkipped, on   *)
(* the success page, and its row is then in the table (as long as no row   *)
(* has been deleted).  Stated for the uploads that have ended.             *)
(***************************************************************************)
TerminalOutcomes == {AnchoredOutcome, AnchorFailed, AnchorSkipped}

C19_EndsInTerminalState ==
    \A p \in Procs :
        (Done(p) /\ req[p].sid # 0)
        => /\ Kind(req[p]) \in TerminalOutcomes
           /\ req[p].redirect = "upload_success_page"
           /\ deleted = 0 => OwnRows(req[p]) # {}

(***************************************************************************)
(* C20.  Once a row is in the table its fields and its fingerprint never   *)
(* change, and its anchor data change at most once: from not anchored to   *)
(* anchored, with the transaction and the block of a successful anchor of  *)
(* the fingerprint of that row.  Nothing resets on_blockchain or rewrites  *)
(* the transaction hash.                                                   *)
(***************************************************************************)
AnchorStatus(row) ==
    <<row.on_blockchain, row.blockchain_tx_hash, row.blockchain_block_number>>

C20_AnchorStatusWrittenOnce ==
    [][\A row \in store : \A row2 \in store' :
        row2.id = row.id =>
            /\ OrderedFields(row2) = OrderedFields(row)
            /\ row2.certificate_hash = row.certificate_hash
            /\ AnchorStatus(row2) # AnchorStatus(row) =>
                  /\ ~row.on_blockchain
                  /\ row2.on_blockchain
                  /\ \E t \in chain :
                        /\ t.status = "ok"
                        /\ t.hash = row.certificate_hash
                        /\ t.tx = row2.blockchain_tx_hash
                        /\ t.block = row2.blockchain_block_number]_vars

(***************************************************************************)
(* C21.  Two uploads in flight at the same time, with different matric     *)
(* numbers and different fingerprints, do not affect each other.  Stated   *)
(* for the submission: the node never refuses the transaction of one       *)
(* upload because of the transaction of the other, which the upload would  *)
(* not have met had it run alone.                                          *)
(***************************************************************************)
InFlight(q) == req[q].pc \notin {"idle", "done"}

\* p and q are uploads of different credentials for different students.
Unrelated(p, q) ==
    /\ p # q
    /\ Hashed(p) /\ Hashed(q)
    /\ req[p].hash # req[q].hash
    /\ req[p].form.matric_number # req[q].form.matric_number

\* The step in which the node refuses the transaction of p for its nonce.
NonceRefused(p) ==
    /\ req[p].pc = "anchor_send"
    /\ req'[p].pc = "done"
    /\ req'[p].result = Caught("nonce too low")

C21_UnrelatedUploadsIndependent ==
    [][\A p, q \in Procs :
        (Unrelated(p, q) /\ InFlight(q) /\ NonceRefused(p))
        => ~\E u \in chain : u.tx = req[q].tx /\ u.nonce = req[p].nonce]_vars

(***************************************************************************)
(* C22.  A row with on_blockchain true has a transaction hash and a block  *)
(* number, and they are those of a transaction mined with success that     *)
(* anchors the fingerprint of the row for the matric number of the row; an *)
(* upload that reports the certificate as stored on the blockchain has got *)
(* a successful result for its fingerprint.                                *)
(***************************************************************************)
\* The ledger holds the anchor the row refers to.
AnchorOf(row) ==
    {t \in chain : /\ t.tx = row.blockchain_tx_hash
                   /\ t.block = row.blockchain_block_number
                   /\ t.status = "ok"
                   /\ t.hash = row.certificate_hash
                   /\ t.matric = row.matric_number}

C22_AnchoredRowsAreOnLedger ==
    /\ \A row \in store :
          row.on_blockchain =>
              /\ row.blockchain_tx_hash # 0
              /\ row.blockchain_block_number # 0
              /\ AnchorOf(row) # {}
    /\ \A p \in Procs :
          (Done(p) /\ Kind(req[p]) = AnchoredOutcome) =>
              /\ req[p].result.success
              /\ \E t \in Anchors(req[p].hash) : t.tx = req[p].result.tx_hash

(***************************************************************************)
(* C23.  The table never holds two rows with one fingerprint nor two rows  *)
(* with one matric number.  An upload for a matric number that a row       *)
(* already carries ends without inserting, on the upload page with an      *)
(* error, whether it is stopped by the matric check or by the insert, and  *)
(* also when its fingerprint is not the one of that row.                   *)
(***************************************************************************)
\* The step of p that ends its upload before it has created a row.
EndsWithoutRow(p) ==
    /\ req[p].pc \in {"idle", "done", "insert"}
    /\ req'[p] # req[p]
    /\ req'[p].pc = "done"
    /\ req'[p].sid = 0

\* The step of p that looks the matric number up or inserts the row.
ChecksOrInserts(p) ==
    /\ req[p].pc \in {"idle", "done", "insert"}
    /\ req'[p] # req[p]
    /\ AllPresent(req'[p].form)

C23_OneRowPerStudent ==
    /\ [](\A r1, r2 \in store :
            (r1.certificate_hash = r2.certificate_hash
                \/ r1.matric_number = r2.matric_number) => r1 = r2)
    /\ [][\A p \in Procs :
            (/\ ChecksOrInserts(p)
             /\ \E row \in store : row.matric_number = req'[p].form.matric_number)
            => /\ EndsWithoutRow(p)
               /\ store' = store
               /\ Kind(req'[p]) \in {DuplicateCredential, StorageFailure}]_vars

\* An upload was stopped by the matric check although its fingerprint is not in the
\* table.
C23_Witness ==
    \E p \in Procs :
        /\ Done(p) /\ Kind(req[p]) = DuplicateCredential
        /\ \E row \in store : row.matric_number = req[p].form.matric_number
        /\ RowsByHash(store, CertificateHash(req[p].form)) = {}

(***************************************************************************)
(* C24.  The ledger never receives two anchor transactions for one         *)
(* fingerprint, also when a row is deleted and the same credential is      *)
(* uploaded again; one upload sends at most one transaction.               *)
(***************************************************************************)
\* The number of times the request has called send_raw_transaction.
Sends(r) == Len(SelectSeq(r.trace, LAMBDA op : op = "send_raw_transaction"))

C24_AnchoredAtMostOnce ==
    /\ \A t, u \in chain : t.hash = u.hash => t = u
    /\ \A p \in Procs : Sends(req[p]) <= 1

(***************************************************************************)
(* C25.  Every failure that store_certificate_on_blockchain returns after  *)
(* send_raw_transaction has accepted the transaction carries the hash of   *)
(* that transaction, also when wait_for_transaction_receipt raises or      *)
(* runs into its timeout.                                                  *)
(***************************************************************************)
C25_FailureNamesTransaction ==
    \A p \in Procs :
        LET r == req[p]
        IN  (r.result # NoResult /\ ~r.result.success /\ r.tx # 0)
            => /\ "tx_hash" \in DOMAIN r.result
               /\ r.result.tx_hash = r.tx
====
